---- MODULE Spec2Model ----
(***************************************************************************)
(* State-machine model of the aquarium actuator controller (src/src/      *)
(* main.cpp): the four relay channels, the feeder's 2-second pulse, the   *)
(* resource-identifier dedup record, the webhook handlers, the poll       *)
(* readers, createSubscription and the setup()/loop() schedule.           *)
(***************************************************************************)
EXTENDS Integers, Sequences, FiniteSets, TLC

(***************************************************************************)
(* unsigned long (32 bits on the ESP32), kept at its width as a pair of   *)
(* 16-bit halves: value = hi * 2^16 + lo.                                  *)
(***************************************************************************)
W16 == 2 ^ 16

U32(n) == [hi |-> (n \div W16) % W16, lo |-> n % W16]

Add32(a, b) ==
  LET s == a.lo + b.lo
  IN  [hi |-> (a.hi + b.hi + (s \div W16)) % W16, lo |-> s % W16]

Sub32(a, b) ==
  LET borrow == IF a.lo < b.lo THEN 1 ELSE 0
  IN  [hi |-> (a.hi - b.hi - borrow + 2 * W16) % W16,
       lo |-> (a.lo - b.lo + W16) % W16]

Geq32(a, b) == a.hi > b.hi \/ (a.hi = b.hi /\ a.lo >= b.lo)

(***************************************************************************)
(* Program constants.                                                      *)
(***************************************************************************)
PIN_LED == 25
PIN_FEEDER == 26
PIN_HEATER == 27
PIN_PUMP == 33
RELAY_ACTIVE_LOW == TRUE
POLL_INTERVAL_MS == 15 * 1000
FEED_PULSE_MS == 2000

Pins == {PIN_LED, PIN_FEEDER, PIN_HEATER, PIN_PUMP}
StdPins == {PIN_LED, PIN_HEATER, PIN_PUMP}

(***************************************************************************)
(* Bounds of the model.                                                    *)
(***************************************************************************)
MaxTicks == 2

\* amounts by which the millisecond clock is seen to advance between steps
Deltas == {1, FEED_PULSE_MS - 1, POLL_INTERVAL_MS}

\* 286331 idle poll periods of 15000 ms: 2^32 - 2296 ms
IdleJump == [hi |-> W16 - 1, lo |-> W16 - 2296]

\* resource identifiers of the content instances the platform hands out
RiSet == {"cin1", "cin2"}

(***************************************************************************)
(* Content strings.  A String is modelled by its lexical structure: ws =   *)
(* surrounding white space, esc = it holds \" escape sequences, k = a bare *)
(* word (w), a brace-delimited JSON object with the fields cmd and on, or  *)
(* a brace-delimited text that is not JSON.  JSON values are tagged.       *)
(***************************************************************************)
JAbsent == [t |-> "absent", v |-> ""]
JNull == [t |-> "null", v |-> ""]
JStr(s) == [t |-> "str", v |-> s]
JBool(b) == [t |-> "bool", v |-> b]
JInt(n) == [t |-> "int", v |-> n]

Word(w) == [ws |-> FALSE, esc |-> FALSE, k |-> "word", w |-> w,
            cmd |-> JAbsent, on |-> JAbsent]
Obj(c, o) == [ws |-> FALSE, esc |-> FALSE, k |-> "obj", w |-> "",
              cmd |-> c, on |-> o]
BadObj == [ws |-> FALSE, esc |-> FALSE, k |-> "badobj", w |-> "",
           cmd |-> JAbsent, on |-> JAbsent]
Padded(s) == [s EXCEPT !.ws = TRUE]
Escaped(s) == [s EXCEPT !.esc = TRUE]

\* String::equalsIgnoreCase / strcasecmp compare the lower-cased texts
ToLower(w) ==
  CASE w \in {"on", "ON", "On", "oN"} -> "on"
    [] w \in {"off", "OFF", "Off"} -> "off"
    [] OTHER -> w

\* String::trim
Trim(s) == [s EXCEPT !.ws = FALSE]

StartsWithBrace(s) == ~s.ws /\ s.k \in {"obj", "badobj"}
EndsWithBrace(s) == ~s.ws /\ s.k \in {"obj", "badobj"}

\* un.replace("\\\"", "\""); un.replace("\\\\", "\\"); kept if {...}
Unescape(s) ==
  IF s.esc
  THEN LET un == [s EXCEPT !.esc = FALSE]
       IN  IF StartsWithBrace(un) /\ EndsWithBrace(un) THEN un ELSE s
  ELSE s

\* deserializeJson(d, s) == DeserializationError::Ok
DeserializeOk(s) == s.k = "obj" /\ ~s.esc /\ ~s.ws

NoDecode == [ok |-> FALSE, on |-> FALSE]
Decoded(b) == [ok |-> TRUE, on |-> b]

parseOnField(o) ==
  IF o.t = "bool" THEN Decoded(o.v = "true")
  ELSE IF o.t = "int" THEN Decoded(o.v # "0")
  ELSE IF o.t = "str"
       THEN IF ToLower(o.v) = "on" THEN Decoded(TRUE)
            ELSE IF ToLower(o.v) = "off" THEN Decoded(FALSE)
            ELSE NoDecode
  ELSE NoDecode

\* mutant: the decoder looks at the on field before the cmd field
parseConToOnOff_OnFieldFirst(con) ==
  LET s == Trim(con)
      lit == s.k = "word" /\ ~s.esc
  IN  IF lit /\ (ToLower(s.w) = "on" \/ s.w = "1") THEN Decoded(TRUE)
      ELSE IF lit /\ (ToLower(s.w) = "off" \/ s.w = "0") THEN Decoded(FALSE)
      ELSE IF StartsWithBrace(s) /\ DeserializeOk(s)
           THEN IF s.on.t # "absent" /\ parseOnField(s.on).ok THEN parseOnField(s.on)
                ELSE IF s.cmd.t = "str" /\ ToLower(s.cmd.v) = "on" THEN Decoded(TRUE)
                ELSE IF s.cmd.t = "str" /\ ToLower(s.cmd.v) = "off" THEN Decoded(FALSE)
                ELSE NoDecode
      ELSE NoDecode

parseConToOnOff(con) ==
  LET s == Trim(con)
      lit == s.k = "word" /\ ~s.esc
  IN  IF lit /\ (ToLower(s.w) = "on" \/ s.w = "1") THEN Decoded(TRUE)
      ELSE IF lit /\ (ToLower(s.w) = "off" \/ s.w = "0") THEN Decoded(FALSE)
      ELSE IF StartsWithBrace(s) /\ DeserializeOk(s)
           THEN IF s.cmd.t = "str" /\ ToLower(s.cmd.v) = "on" THEN Decoded(TRUE)
                ELSE IF s.cmd.t = "str" /\ ToLower(s.cmd.v) = "off" THEN Decoded(FALSE)
                ELSE IF s.on.t # "absent" THEN parseOnField(s.on)
                ELSE NoDecode
      ELSE NoDecode

(***************************************************************************)
(* JSON members of a content instance: present or not (isNull).            *)
(***************************************************************************)
NoCon == [present |-> FALSE, text |-> Word("")]
ConField(s) == [present |-> TRUE, text |-> s]
NoRi == [present |-> FALSE, v |-> ""]
RiField(r) == [present |-> TRUE, v |-> r]

\* JsonVariant::as<String>(): the string, or the serialised JSON ("null")
ConAsString(f) == IF f.present THEN f.text ELSE Word("null")
RiAsString(f) == IF f.present THEN f.v ELSE "null"

(***************************************************************************)
(* Notification envelope: server.arg("plain").  k = "empty" (no body),     *)
(* "notjson", or "json" with the links of the chain that are present.      *)
(***************************************************************************)
Envelope(sgnKey, nev, rep, cin, con, ri) ==
  [k |-> "json", sgn |-> sgnKey, nev |-> nev, rep |-> rep, cin |-> cin,
   con |-> con, ri |-> ri]
EmptyBody == [k |-> "empty", sgn |-> "absent", nev |-> FALSE, rep |-> FALSE,
              cin |-> FALSE, con |-> NoCon, ri |-> NoRi]
NotJsonBody == [EmptyBody EXCEPT !.k = "notjson"]

NoExtract == [ok |-> FALSE, con |-> Word(""), ri |-> ""]

extractConRiFromNotify(body) ==
  IF body.k # "json" THEN NoExtract
  ELSE IF body.sgn \notin {"m2m:sgn", "sgn"} THEN NoExtract
  ELSE IF ~body.nev THEN NoExtract
  ELSE IF ~body.rep THEN NoExtract
  ELSE IF ~body.cin THEN NoExtract
  ELSE IF ~body.con.present THEN NoExtract
  ELSE [ok |-> TRUE,
        con |-> Unescape(Trim(body.con.text)),
        ri |-> IF body.ri.present THEN body.ri.v ELSE ""]

(***************************************************************************)
(* Inputs of the engine.                                                   *)
(***************************************************************************)
ConInputs ==
  { Word("on"), Padded(Word("OFF")), Word("banana"),
    Escaped(Obj(JStr("on"), JAbsent)) }

RiInputs == {NoRi, RiField("")} \cup {RiField(r) : r \in RiSet}

Bodies ==
  {EmptyBody, NotJsonBody}
  \cup { Envelope("absent", TRUE, TRUE, TRUE, ConField(Word("on")), RiField("cin1")),
         Envelope("sgn", FALSE, TRUE, TRUE, ConField(Word("on")), RiField("cin1")),
         Envelope("m2m:sgn", TRUE, FALSE, TRUE, ConField(Word("on")), RiField("cin1")),
         Envelope("m2m:sgn", TRUE, TRUE, FALSE, ConField(Word("on")), RiField("cin1")),
         Envelope("m2m:sgn", TRUE, TRUE, TRUE, NoCon, RiField("cin1")) }
  \cup { Envelope("sgn", TRUE, TRUE, TRUE, ConField(Word("on")), RiField("cin2")) }
  \cup { Envelope("m2m:sgn", TRUE, TRUE, TRUE, ConField(c), r) :
           c \in ConInputs, r \in RiInputs }

\* the handlers of the standard channels do not look at the ri
StdBodies == {b \in Bodies : b.ri \in {NoRi, RiField("cin1")}}

\* what a GET of <container>/la can come back with
PollReply(begin, code, json, cin, con, ri) ==
  [begin |-> begin, code |-> code, json |-> json, cin |-> cin,
   con |-> con, ri |-> ri]

PollReplies ==
  { PollReply(FALSE, 0, FALSE, FALSE, NoCon, NoRi),
    PollReply(TRUE, 404, FALSE, FALSE, NoCon, NoRi),
    PollReply(TRUE, 500, TRUE, TRUE, ConField(Word("on")), RiField("cin1")),
    PollReply(TRUE, -1, FALSE, FALSE, NoCon, NoRi),
    PollReply(TRUE, 200, FALSE, FALSE, NoCon, NoRi),
    PollReply(TRUE, 200, TRUE, FALSE, NoCon, NoRi),
    PollReply(TRUE, 200, TRUE, TRUE, NoCon, RiField("cin1")) }
  \cup { PollReply(TRUE, 200, TRUE, TRUE, ConField(c), r) :
           c \in ConInputs, r \in RiInputs }

(***************************************************************************)
(* Subscriptions.  A text is a sequence of tokens; an address is its       *)
(* network prefix followed by the digits of its last octet, so that        *)
(* String::indexOf is a search for a run of tokens.                        *)
(***************************************************************************)
Ip1 == <<"10.0.0.", "1">>
Ip12 == <<"10.0.0.", "1", "2">>
DeviceIps == {Ip1, Ip12}

CntNames == <<"LED", "feed", "heater", "pump">>
SubNames == <<"sub_led", "sub_feeder", "sub_heater", "sub_pump">>
EndpointPaths == <<"n_led", "n_feeder", "n_heater", "n_pump">>

\* a notification target: http://<ip>:8080/<path>
Url(ip, path) == [ip |-> ip, path |-> path]
UrlText(u) == <<"http://">> \o u.ip \o <<":8080/", u.path>>

\* String nu = "http://" + ip + ":8080/" + endpointPath
CallbackUrl(ip, i) == Url(ip, EndpointPaths[i])

\* the subscription resource of a container on the platform
NoSub == [exists |-> FALSE, nu |-> <<>>]
RemoteSub(nu) == [exists |-> TRUE, nu |-> nu]

\* what the platform may hold for channel i when setup() runs
RemoteSubs(i) ==
  {NoSub}
  \cup { RemoteSub(<<Url(a, EndpointPaths[i])>>) : a \in DeviceIps }
  \cup { RemoteSub(<<Url(Ip12, "n_old"), Url(Ip1, EndpointPaths[i])>>) }

RECURSIVE NuText(_)
NuText(nu) ==
  IF nu = <<>> THEN <<>>
  ELSE <<"\"">> \o UrlText(Head(nu)) \o <<"\"">> \o NuText(Tail(nu))

\* body of the reply to a GET of the subscription
SubText(i, r) ==
  <<"{\"m2m:sub\":{\"rn\":\"", SubNames[i], "\",\"nu\":[">>
    \o NuText(r.nu) \o <<"]}}">>

\* String::indexOf(pat) >= 0
Contains(text, pat) ==
  \E k \in 1..(Len(text) - Len(pat) + 1) :
    SubSeq(text, k, k + Len(pat) - 1) = pat

\* the m2m:sub bodies createSubscription sends
PostBody(i, nu) == [rn |-> SubNames[i], net |-> <<3>>, nct |-> 2, nu |-> <<nu>>]
PutBody(nu) == [nu |-> <<nu>>]

\* createSubscription between calls
NoCall == [stage |-> "idle", ip |-> <<>>, remote |-> NoSub, post |-> 0,
           get |-> 0, gr |-> <<>>, read |-> <<>>, put |-> 0, sent |-> <<>>,
           ret |-> FALSE]

(***************************************************************************)
(* State.                                                                  *)
(***************************************************************************)
VARIABLES
  sub,                    \* the createSubscription call in progress
  pc,                     \* position in setup() / loop()
  millis,                 \* the millisecond clock, millis()
  level,                  \* digital output level of each relay pin
  feederPulseActive,
  feederPulseEndMs,
  lastProcessedFeederRi,
  lastPoll,
  resp,                   \* the reply handleClient() has just sent
  ticks,                  \* number of clock advances so far (bounds the model)
  pulsed,                 \* history: the non-empty ri whose delivery started a pulse
  fetched                 \* what the last read of the poll cycle returned

vars == <<pc, sub, millis, level, feederPulseActive, feederPulseEndMs,
          lastProcessedFeederRi, lastPoll, resp, ticks, pulsed, fetched>>

At(a, i) == [at |-> a, i |-> i]

\* no fetch has returned / the bool a fetch returned
NoFetch == "none"
Fetched(ret) == IF ret THEN "true" ELSE "false"

\* no reply sent
NoResp == [code |-> 0, text |-> ""]
Sent(code, text) == [code |-> code, text |-> text]

\* relayWritePin(pin, on) applied to the pin levels lv
relayWritePin(lv, pin, on) ==
  [lv EXCEPT ![pin] = IF RELAY_ACTIVE_LOW
                      THEN (IF on THEN "LOW" ELSE "HIGH")
                      ELSE (IF on THEN "HIGH" ELSE "LOW")]

\* the relay on a pin is energised
LevelOn(l) == l = (IF RELAY_ACTIVE_LOW THEN "LOW" ELSE "HIGH")
RelayOn(pin) == LevelOn(level[pin])

Init ==
  /\ pc = At("setup", 0)
  /\ sub = NoCall
  /\ millis = U32(0)
  /\ level \in [Pins -> {"LOW", "HIGH"}]
  /\ feederPulseActive = FALSE
  /\ feederPulseEndMs = U32(0)
  /\ lastProcessedFeederRi = ""
  /\ lastPoll = U32(0)
  /\ resp = NoResp
  /\ ticks = 0
  /\ pulsed = {}
  /\ fetched = NoFetch

(***************************************************************************)
(* Positions of the single task: setup() runs the pin reset, the four      *)
(* subscriptions and the boot poll; loop() runs handleClient, the pulse    *)
(* deadline check, the poll check (and cycle) and delay(5).                *)
(***************************************************************************)
ChanPins == <<PIN_LED, PIN_FEEDER, PIN_HEATER, PIN_PUMP>>

\* where the task goes after the i-th read of a poll cycle
AfterPoll(p) ==
  IF p.i < Len(ChanPins) THEN At(p.at, p.i + 1)
  ELSE IF p.at = "bootpoll" THEN At("handleClient", 0)
  ELSE At("delay", 0)

(***************************************************************************)
(* Feeder: the pulse state machine and the dedup record, as one record     *)
(* [active, endMs, level, lastRi] of the globals the feeder code touches.  *)
(***************************************************************************)
FeederState ==
  [active |-> feederPulseActive, endMs |-> feederPulseEndMs,
   level |-> level, lastRi |-> lastProcessedFeederRi]

\* mutant: another "on" during the pulse moves the deadline
startFeederPulse_Extends(st, now) ==
  IF ~st.active
  THEN [st EXCEPT !.active = TRUE,
                  !.endMs = Add32(now, U32(FEED_PULSE_MS)),
                  !.level = relayWritePin(st.level, PIN_FEEDER, TRUE)]
  ELSE [st EXCEPT !.endMs = Add32(now, U32(FEED_PULSE_MS))]

startFeederPulse(st, now) ==
  IF ~st.active
  THEN [st EXCEPT !.active = TRUE,
                  !.endMs = Add32(now, U32(FEED_PULSE_MS)),
                  !.level = relayWritePin(st.level, PIN_FEEDER, TRUE)]
  ELSE st

\* mutant: the deadline check clears the flag and leaves the relay on
feederPulseService_KeepsRelay(st, now) ==
  IF st.active /\ Geq32(now, st.endMs)
  THEN [st EXCEPT !.active = FALSE]
  ELSE st

feederPulseService(st, now) ==
  IF st.active /\ Geq32(now, st.endMs)
  THEN [st EXCEPT !.level = relayWritePin(st.level, PIN_FEEDER, FALSE),
                  !.active = FALSE]
  ELSE st

\* mutant: handle_n_feeder without the duplicate check
feederNotify_NoDedup(st, body, now) ==
  LET x == extractConRiFromNotify(body)
      d == parseConToOnOff(x.con)
  IN  IF body.k = "empty" THEN [st |-> st, resp |-> Sent(400, "empty")]
      ELSE IF ~x.ok THEN [st |-> st, resp |-> Sent(400, "no con/ri")]
      ELSE IF ~d.ok THEN [st |-> st, resp |-> Sent(400, "bad con")]
      ELSE IF d.on
           THEN [st |-> startFeederPulse([st EXCEPT !.lastRi = x.ri], now),
                 resp |-> Sent(200, "ok")]
      ELSE [st |-> st, resp |-> Sent(200, "ignored")]

\* mutant: handle_n_feeder records the ri only when the pulse really starts
feederNotify_RecordOnStart(st, body, now) ==
  LET x == extractConRiFromNotify(body)
      d == parseConToOnOff(x.con)
  IN  IF body.k = "empty" THEN [st |-> st, resp |-> Sent(400, "empty")]
      ELSE IF ~x.ok THEN [st |-> st, resp |-> Sent(400, "no con/ri")]
      ELSE IF ~d.ok THEN [st |-> st, resp |-> Sent(400, "bad con")]
      ELSE IF x.ri # "" /\ x.ri = st.lastRi
           THEN [st |-> st, resp |-> Sent(200, "dup")]
      ELSE IF d.on
           THEN [st |-> IF st.active THEN st
                        ELSE startFeederPulse([st EXCEPT !.lastRi = x.ri], now),
                 resp |-> Sent(200, "ok")]
      ELSE [st |-> st, resp |-> Sent(200, "ignored")]

\* mutant: handle_n_feeder answers a duplicate with 400
feederNotify_DupRejected(st, body, now) ==
  LET x == extractConRiFromNotify(body)
      d == parseConToOnOff(x.con)
  IN  IF body.k = "empty" THEN [st |-> st, resp |-> Sent(400, "empty")]
      ELSE IF ~x.ok THEN [st |-> st, resp |-> Sent(400, "no con/ri")]
      ELSE IF ~d.ok THEN [st |-> st, resp |-> Sent(400, "bad con")]
      ELSE IF x.ri # "" /\ x.ri = st.lastRi
           THEN [st |-> st, resp |-> Sent(400, "dup")]
      ELSE IF d.on
           THEN [st |-> startFeederPulse([st EXCEPT !.lastRi = x.ri], now),
                 resp |-> Sent(200, "ok")]
      ELSE [st |-> st, resp |-> Sent(200, "ignored")]

\* handle_n_feeder on the request body: the new feeder state and the reply
feederNotify(st, body, now) ==
  LET x == extractConRiFromNotify(body)
      d == parseConToOnOff(x.con)
  IN  IF body.k = "empty" THEN [st |-> st, resp |-> Sent(400, "empty")]
      ELSE IF ~x.ok THEN [st |-> st, resp |-> Sent(400, "no con/ri")]
      ELSE IF ~d.ok THEN [st |-> st, resp |-> Sent(400, "bad con")]
      ELSE IF x.ri # "" /\ x.ri = st.lastRi
           THEN [st |-> st, resp |-> Sent(200, "dup")]
      ELSE IF d.on
           THEN [st |-> startFeederPulse([st EXCEPT !.lastRi = x.ri], now),
                 resp |-> Sent(200, "ok")]
      ELSE [st |-> st, resp |-> Sent(200, "ignored")]

\* mutant: handleNotifyAndDrivePin drives the pin before it looks at the
\* result of the decoder
stdNotify_DrivesBeforeDecode(lv, pin, body) ==
  LET x == extractConRiFromNotify(body)
      d == parseConToOnOff(x.con)
  IN  IF body.k = "empty" THEN [level |-> lv, resp |-> Sent(400, "empty")]
      ELSE IF ~x.ok THEN [level |-> lv, resp |-> Sent(400, "no con")]
      ELSE IF ~d.ok THEN [level |-> relayWritePin(lv, pin, d.on),
                          resp |-> Sent(400, "bad con")]
      ELSE [level |-> relayWritePin(lv, pin, d.on), resp |-> Sent(200, "ok")]

\* handleNotifyAndDrivePin(pin, name): the new pin levels and the reply
stdNotify(lv, pin, body) ==
  LET x == extractConRiFromNotify(body)
      d == parseConToOnOff(x.con)
  IN  IF body.k = "empty" THEN [level |-> lv, resp |-> Sent(400, "empty")]
      ELSE IF ~x.ok THEN [level |-> lv, resp |-> Sent(400, "no con")]
      ELSE IF ~d.ok THEN [level |-> lv, resp |-> Sent(400, "bad con")]
      ELSE [level |-> relayWritePin(lv, pin, d.on), resp |-> Sent(200, "ok")]

\* mutant: fetchLatestAndDrive switches the relay off when the read fails
stdPoll_OffOnError(lv, pin, r) ==
  LET con == Unescape(Trim(ConAsString(r.con)))
      d == parseConToOnOff(con)
  IN  IF ~r.begin THEN [level |-> lv, ret |-> FALSE]
      ELSE IF r.code = 200 /\ r.json /\ r.cin /\ d.ok
           THEN [level |-> relayWritePin(lv, pin, d.on), ret |-> TRUE]
      ELSE [level |-> relayWritePin(lv, pin, FALSE), ret |-> FALSE]

\* mutant: fetchLatestAndDrive skips a command that repeats the level
\* it last read as "on"
stdPoll_OnlySwitchesOn(lv, pin, r) ==
  LET con == Unescape(Trim(ConAsString(r.con)))
      d == parseConToOnOff(con)
  IN  IF ~r.begin THEN [level |-> lv, ret |-> FALSE]
      ELSE IF r.code = 200 /\ r.json /\ r.cin /\ d.ok
           THEN [level |-> IF d.on THEN relayWritePin(lv, pin, TRUE) ELSE lv,
                 ret |-> TRUE]
      ELSE [level |-> lv, ret |-> FALSE]

\* fetchLatestAndDrive(cnt, pin, name) on the reply to its GET
stdPoll(lv, pin, r) ==
  LET con == Unescape(Trim(ConAsString(r.con)))
      d == parseConToOnOff(con)
  IN  IF ~r.begin THEN [level |-> lv, ret |-> FALSE]
      ELSE IF r.code = 200 /\ r.json /\ r.cin /\ d.ok
           THEN [level |-> relayWritePin(lv, pin, d.on), ret |-> TRUE]
      ELSE [level |-> lv, ret |-> FALSE]

\* mutant: an "off" read by the poll ends the pulse
feederPoll_OffStops(st, r, now) ==
  LET ri == RiAsString(r.ri)
      con == Unescape(Trim(ConAsString(r.con)))
      d == parseConToOnOff(con)
  IN  IF ~r.begin THEN [st |-> st, ret |-> FALSE]
      ELSE IF r.code = 200 /\ r.json /\ r.cin /\ d.ok
           THEN IF d.on /\ ri # st.lastRi
                THEN [st |-> startFeederPulse([st EXCEPT !.lastRi = ri], now),
                      ret |-> TRUE]
                ELSE IF ~d.on
                THEN [st |-> [st EXCEPT
                                !.level = relayWritePin(st.level, PIN_FEEDER, FALSE),
                                !.active = FALSE],
                      ret |-> TRUE]
                ELSE [st |-> st, ret |-> TRUE]
      ELSE [st |-> st, ret |-> FALSE]

\* fetchLatestFeederAndMaybePulse() on the reply to its GET
feederPoll(st, r, now) ==
  LET ri == RiAsString(r.ri)
      con == Unescape(Trim(ConAsString(r.con)))
      d == parseConToOnOff(con)
  IN  IF ~r.begin THEN [st |-> st, ret |-> FALSE]
      ELSE IF r.code = 200 /\ r.json /\ r.cin /\ d.ok
           THEN IF d.on /\ ri # st.lastRi
                THEN [st |-> startFeederPulse([st EXCEPT !.lastRi = ri], now),
                      ret |-> TRUE]
                ELSE [st |-> st, ret |-> TRUE]
      ELSE [st |-> st, ret |-> FALSE]

SetFeederState(st) ==
  /\ feederPulseActive' = st.active
  /\ feederPulseEndMs' = st.endMs
  /\ level' = st.level
  /\ lastProcessedFeederRi' = st.lastRi

\* history of the pulses started: the ri of the delivery that started one
RecordPulse ==
  pulsed' = IF ~feederPulseActive /\ feederPulseActive'
               /\ lastProcessedFeederRi' \in RiSet
            THEN pulsed \cup {lastProcessedFeederRi'}
            ELSE pulsed

(***************************************************************************)
(* Actions.                                                                *)
(***************************************************************************)
\* the clock advances; the time an iteration of loop() takes is accounted
\* for where it sleeps, in delay(5)
Tick(d) ==
  /\ ticks < MaxTicks
  /\ pc = At("delay", 0)
  /\ millis' = Add32(millis, U32(d))
  /\ ticks' = ticks + 1
  /\ UNCHANGED <<pc, sub, level, feederPulseActive, feederPulseEndMs,
                 lastProcessedFeederRi, lastPoll, resp, pulsed, fetched>>

\* 286331 iterations of loop() in which no request arrives, 15000 ms pass
\* and every read of the poll cycle finds no command (404), taken at once
LongIdle ==
  /\ pc = At("delay", 0)
  /\ ~feederPulseActive
  /\ millis = U32(0)
  /\ lastPoll = millis
  /\ millis' = Add32(millis, IdleJump)
  /\ lastPoll' = Add32(lastPoll, IdleJump)
  /\ UNCHANGED <<pc, sub, level, feederPulseActive, feederPulseEndMs,
                 lastProcessedFeederRi, resp, ticks, pulsed, fetched>>

\* setup(): Reset Relay to Safe State
SetupPins ==
  /\ pc = At("setup", 0)
  /\ level' = relayWritePin(relayWritePin(relayWritePin(relayWritePin(
                 level, PIN_LED, FALSE), PIN_FEEDER, FALSE), PIN_HEATER, FALSE),
                 PIN_PUMP, FALSE)
  /\ pc' = At("sub", 1)
  /\ UNCHANGED <<sub, millis, feederPulseActive, feederPulseEndMs,
                 lastProcessedFeederRi, lastPoll, resp, ticks, pulsed, fetched>>

engine == <<millis, level, feederPulseActive, feederPulseEndMs,
            lastProcessedFeederRi, lastPoll, resp, ticks, pulsed, fetched>>

\* createSubscription: the POST, whatever the platform holds and answers
SubPost(ip, code) ==
  /\ pc.at = "sub" /\ sub.stage = "idle"
  /\ \E remote \in RemoteSubs(pc.i) :
       /\ code \in (IF remote.exists THEN {409, 500} ELSE {201, 500})
       /\ sub' = [NoCall EXCEPT
                    !.stage = "post", !.ip = ip, !.post = code,
                    !.remote = IF code = 201
                               THEN RemoteSub(<<CallbackUrl(ip, pc.i)>>)
                               ELSE remote,
                    !.sent = <<[m |-> "POST",
                                body |-> PostBody(pc.i, CallbackUrl(ip, pc.i))]>>]
  /\ UNCHANGED <<pc, engine>>

\* createSubscription: code == 409, the GET of the existing subscription
SubGet(gc) ==
  /\ pc.at = "sub" /\ sub.stage = "post" /\ sub.post = 409
  /\ sub' = [sub EXCEPT
               !.stage = "get", !.get = gc,
               !.gr = IF gc = 200 THEN SubText(pc.i, sub.remote) ELSE <<>>,
               !.read = IF gc = 200 THEN sub.remote.nu ELSE <<>>,
               !.sent = Append(sub.sent, [m |-> "GET", body |-> <<>>])]
  /\ UNCHANGED <<pc, engine>>

\* the read-back subscription does not show the device's address
NeedsUpdate(gr, ip) == ~Contains(gr, ip)

\* createSubscription: gc == 200 and the address is not found, the PUT
SubPut(uc) ==
  /\ pc.at = "sub" /\ sub.stage = "get" /\ sub.get = 200
  /\ NeedsUpdate(sub.gr, sub.ip)
  /\ sub' = [sub EXCEPT
               !.stage = "put", !.put = uc,
               !.remote = IF uc = 200
                          THEN RemoteSub(<<CallbackUrl(sub.ip, pc.i)>>)
                          ELSE sub.remote,
               !.sent = Append(sub.sent,
                          [m |-> "PUT", body |-> PutBody(CallbackUrl(sub.ip, pc.i))])]
  /\ UNCHANGED <<pc, engine>>

\* the value createSubscription returns after the POST was answered with code
SubResult(code) ==
  IF code = 201 THEN TRUE
  ELSE IF code = 409 THEN TRUE
  ELSE FALSE

\* createSubscription returns
SubReturn ==
  /\ pc.at = "sub"
  /\ \/ sub.stage = "post" /\ sub.post # 409
     \/ sub.stage = "get" /\ ~(sub.get = 200 /\ NeedsUpdate(sub.gr, sub.ip))
     \/ sub.stage = "put"
  /\ sub' = [sub EXCEPT !.stage = "ret", !.ret = SubResult(sub.post)]
  /\ UNCHANGED <<pc, engine>>

\* mutant: setup() gives up on the remaining channels after a failure
SetupNextSub_StopsOnFailure ==
  /\ pc.at = "sub" /\ sub.stage = "ret"
  /\ sub' = NoCall
  /\ pc' = IF pc.i < Len(CntNames) /\ sub.ret
            THEN At("sub", pc.i + 1) ELSE At("bootpoll", 1)
  /\ UNCHANGED engine

\* setup(): bool okN = createSubscription(...); on to the next channel
SetupNextSub ==
  /\ pc.at = "sub" /\ sub.stage = "ret"
  /\ sub' = NoCall
  /\ pc' = IF pc.i < Len(CntNames) THEN At("sub", pc.i + 1) ELSE At("bootpoll", 1)
  /\ UNCHANGED engine

\* one read of a poll cycle (boot or loop) for a standard channel
PollStd(r) ==
  /\ pc.at \in {"bootpoll", "poll"}
  /\ ChanPins[pc.i] \in StdPins
  /\ level' = stdPoll(level, ChanPins[pc.i], r).level
  /\ pc' = AfterPoll(pc)
  /\ fetched' = Fetched(stdPoll(level, ChanPins[pc.i], r).ret)
  /\ UNCHANGED <<sub, millis, feederPulseActive, feederPulseEndMs,
                 lastProcessedFeederRi, lastPoll, resp, ticks, pulsed>>

\* the feeder's read of a poll cycle
PollFeeder(r) ==
  /\ pc.at \in {"bootpoll", "poll"}
  /\ ChanPins[pc.i] = PIN_FEEDER
  /\ SetFeederState(feederPoll(FeederState, r, millis).st)
  /\ RecordPulse
  /\ pc' = AfterPoll(pc)
  /\ fetched' = Fetched(feederPoll(FeederState, r, millis).ret)
  /\ UNCHANGED <<sub, millis, lastPoll, resp, ticks>>

\* server.handleClient() with no request pending
HandleClientIdle ==
  /\ pc = At("handleClient", 0)
  /\ pc' = At("pulseService", 0)
  /\ fetched' = NoFetch
  /\ UNCHANGED <<sub, millis, level, feederPulseActive, feederPulseEndMs,
                 lastProcessedFeederRi, lastPoll, resp, ticks, pulsed>>

\* server.handleClient() serving /n_led, /n_heater or /n_pump
HandleNStd(pin, body) ==
  /\ pc = At("handleClient", 0)
  /\ level' = stdNotify(level, pin, body).level
  /\ resp' = stdNotify(level, pin, body).resp
  /\ pc' = At("pulseService", 0)
  /\ fetched' = NoFetch
  /\ UNCHANGED <<sub, millis, feederPulseActive, feederPulseEndMs,
                 lastProcessedFeederRi, lastPoll, ticks, pulsed>>

\* server.handleClient() serving /n_feeder
HandleNFeeder(body) ==
  /\ pc = At("handleClient", 0)
  /\ SetFeederState(feederNotify(FeederState, body, millis).st)
  /\ resp' = feederNotify(FeederState, body, millis).resp
  /\ RecordPulse
  /\ pc' = At("pulseService", 0)
  /\ fetched' = NoFetch
  /\ UNCHANGED <<sub, millis, lastPoll, ticks>>

\* loop(): feederPulseService(); handleClient() has returned, its reply sent
PulseService ==
  /\ pc = At("pulseService", 0)
  /\ SetFeederState(feederPulseService(FeederState, millis))
  /\ resp' = NoResp
  /\ pc' = At("pollCheck", 0)
  /\ UNCHANGED <<sub, millis, lastPoll, ticks, pulsed, fetched>>

\* mutant: the poll check compares the clock with the period, not the
\* time since the last cycle
PollCheck_AbsoluteTime ==
  /\ pc = At("pollCheck", 0)
  /\ IF Geq32(millis, U32(POLL_INTERVAL_MS))
     THEN lastPoll' = millis /\ pc' = At("poll", 1)
     ELSE lastPoll' = lastPoll /\ pc' = At("delay", 0)
  /\ UNCHANGED <<sub, millis, level, feederPulseActive, feederPulseEndMs,
                 lastProcessedFeederRi, resp, ticks, pulsed, fetched>>

\* loop(): if (now - lastPoll >= POLL_INTERVAL_MS) { lastPoll = now; ... }
PollCheck ==
  /\ pc = At("pollCheck", 0)
  /\ IF Geq32(Sub32(millis, lastPoll), U32(POLL_INTERVAL_MS))
     THEN lastPoll' = millis /\ pc' = At("poll", 1)
     ELSE lastPoll' = lastPoll /\ pc' = At("delay", 0)
  /\ UNCHANGED <<sub, millis, level, feederPulseActive, feederPulseEndMs,
                 lastProcessedFeederRi, resp, ticks, pulsed, fetched>>

\* loop(): delay(5) and return; the time it takes is a Tick
Delay ==
  /\ pc = At("delay", 0)
  /\ pc' = At("handleClient", 0)
  /\ fetched' = NoFetch
  /\ UNCHANGED <<sub, millis, level, feederPulseActive, feederPulseEndMs,
                 lastProcessedFeederRi, lastPoll, resp, ticks, pulsed>>

Next ==
  \/ \E d \in Deltas : Tick(d)
  \/ LongIdle
  \/ SetupPins
  \/ \E ip \in DeviceIps, code \in {201, 409, 500} : SubPost(ip, code)
  \/ \E gc \in {200, 404, -1} : SubGet(gc)
  \/ \E uc \in {200, 403} : SubPut(uc)
  \/ SubReturn
  \/ SetupNextSub
  \/ \E r \in PollReplies : PollStd(r)
  \/ \E r \in PollReplies : PollFeeder(r)
  \/ HandleClientIdle
  \/ \E pin \in StdPins, body \in StdBodies : HandleNStd(pin, body)
  \/ \E body \in Bodies : HandleNFeeder(body)
  \/ PulseService
  \/ PollCheck
  \/ Delay

Spec == Init /\ [][Next]_vars

(***************************************************************************)
(* Properties.                                                             *)
(***************************************************************************)
FeederVars == <<feederPulseActive, feederPulseEndMs, level, lastProcessedFeederRi>>

\* a webhook body / a poll reply that carries a command decoding to b
PushDecodes(body, b) ==
  /\ body.k = "json"
  /\ extractConRiFromNotify(body).ok
  /\ parseConToOnOff(extractConRiFromNotify(body).con) = Decoded(b)
PushRi(body) == extractConRiFromNotify(body).ri
PollDecodes(r, b) ==
  /\ r.begin /\ r.code = 200 /\ r.json /\ r.cin
  /\ parseConToOnOff(Unescape(Trim(ConAsString(r.con)))) = Decoded(b)
PollRi(r) == RiAsString(r.ri)

BodiesOn == {body \in Bodies : PushDecodes(body, TRUE)}
BodiesOff == {body \in Bodies : PushDecodes(body, FALSE)}
RepliesOn == {r \in PollReplies : PollDecodes(r, TRUE)}
RepliesOff == {r \in PollReplies : PollDecodes(r, FALSE)}

AtHandleClient == pc = At("handleClient", 0)
AtPoll == pc.at \in {"bootpoll", "poll"}

\* milliseconds since the trigger that set the stored deadline
Elapsed == Sub32(millis, Sub32(feederPulseEndMs, U32(FEED_PULSE_MS)))

\* C1: every non-empty resource identifier starts at most one pulse: a
\* delivery whose ri has already started a pulse never takes the feeder
\* from IDLE to PULSING again.
C1_AtMostOncePerRi ==
  [][(~feederPulseActive /\ feederPulseActive'
        /\ lastProcessedFeederRi' \in RiSet)
      => lastProcessedFeederRi' \notin pulsed]_vars

\* C2: a feeder delivery (push or poll) that decodes to "on" and carries
\* the non-empty ri held in the dedup record changes neither the pulse
\* state, nor any output, nor the dedup record, and a push is answered 200;
\* after any "on" delivery with a non-empty ri the record holds that ri, so
\* that of two consecutive such deliveries the second is a duplicate.
C2_DuplicateIsNoOp ==
  [][/\ AtHandleClient => \A body \in BodiesOn :
          (/\ PushRi(body) # ""
           /\ ~(/\ lastProcessedFeederRi' = PushRi(body)
                /\ PushRi(body) = lastProcessedFeederRi
                     => (UNCHANGED FeederVars /\ resp'.code = 200)))
          => ~HandleNFeeder(body)
     /\ AtPoll => \A r \in RepliesOn :
          (/\ PollRi(r) # ""
           /\ ~(/\ lastProcessedFeederRi' = PollRi(r)
                /\ PollRi(r) = lastProcessedFeederRi => UNCHANGED FeederVars))
          => ~PollFeeder(r)
    ]_vars

\* a duplicate "on" was pushed while the feeder was idle
C2_Witness ==
  /\ pc = At("pulseService", 0)
  /\ resp = Sent(200, "dup")
  /\ ~feederPulseActive
  /\ lastProcessedFeederRi \in pulsed

\* C3: a pulse started at time T is not ended before T + 2000 ms, and the
\* deadline check run at or after T + 2000 ms leaves the feeder idle with
\* its output off.
C3_PulseCompletion ==
  [][/\ (feederPulseActive /\ ~feederPulseActive')
          => Geq32(Elapsed, U32(FEED_PULSE_MS))
     /\ (feederPulseActive /\ RelayOn(PIN_FEEDER)
           /\ ~LevelOn(level'[PIN_FEEDER]))
          => Geq32(Elapsed, U32(FEED_PULSE_MS))
     /\ (pc = At("pulseService", 0) /\ pc' = At("pollCheck", 0)
           /\ feederPulseActive /\ Geq32(Elapsed, U32(FEED_PULSE_MS)))
          => (~feederPulseActive' /\ ~LevelOn(level'[PIN_FEEDER]))
    ]_vars

\* C4: a feeder delivery (push or poll) that decodes to "off" changes
\* neither the pulse state, nor any output, nor the dedup record.
C4_FeederIgnoresOff ==
  [][/\ (AtHandleClient /\ ~UNCHANGED FeederVars)
          => \A body \in BodiesOff : ~HandleNFeeder(body)
     /\ (AtPoll /\ ~UNCHANGED FeederVars)
          => \A r \in RepliesOff : ~PollFeeder(r)
    ]_vars

\* an "off" was pushed while a pulse was running
C4_Witness ==
  /\ pc = At("pulseService", 0)
  /\ resp = Sent(200, "ignored")
  /\ feederPulseActive
  /\ RelayOn(PIN_FEEDER)

\* a feeder delivery the dedup check lets through
PushAccepted(body) ==
  /\ body \in BodiesOn
  /\ ~(PushRi(body) # "" /\ PushRi(body) = lastProcessedFeederRi)
PollAccepted(r) ==
  /\ r \in RepliesOn
  /\ PollRi(r) # lastProcessedFeederRi

\* C5 as stated: the dedup record is written only by a delivery that takes
\* the feeder from IDLE to PULSING.
C5_WrittenOnlyByPulseStart ==
  [][lastProcessedFeederRi' # lastProcessedFeederRi
      => (~feederPulseActive /\ feederPulseActive')]_vars

\* C5 amended: the dedup record is written by every feeder delivery that
\* decodes to "on" and is not dismissed as a duplicate, whether it starts
\* a pulse or finds one running, and by nothing else; it then holds that
\* delivery's ri.
C5_WrittenByAcceptedOn ==
  [][/\ AtHandleClient => \A body \in BodiesOn :
          (/\ lastProcessedFeederRi' # PushRi(body)
           /\ ~(PushRi(body) # "" /\ PushRi(body) = lastProcessedFeederRi))
          => ~HandleNFeeder(body)
     /\ AtPoll => \A r \in RepliesOn :
          (/\ lastProcessedFeederRi' # PollRi(r)
           /\ PollRi(r) # lastProcessedFeederRi)
          => ~PollFeeder(r)
     /\ lastProcessedFeederRi' # lastProcessedFeederRi
          => \/ \E body \in Bodies :
                  /\ PushAccepted(body) /\ HandleNFeeder(body)
                  /\ PushRi(body) = lastProcessedFeederRi'
             \/ \E r \in PollReplies :
                  /\ PollAccepted(r) /\ PollFeeder(r)
                  /\ PollRi(r) = lastProcessedFeederRi'
    ]_vars

\* the record holds the ri of an "on" that arrived during a pulse and
\* that has started none
C5_Witness ==
  /\ pc = At("pulseService", 0)
  /\ resp = Sent(200, "ok")
  /\ feederPulseActive
  /\ lastProcessedFeederRi \in RiSet
  /\ lastProcessedFeederRi \notin pulsed

\* C6: once the dedup record holds a non-empty ri it is never empty again,
\* and it changes only to the ri carried by the feeder delivery being
\* processed.
C6_NeverRolledBack ==
  [][/\ lastProcessedFeederRi # "" => lastProcessedFeederRi' # ""
     /\ lastProcessedFeederRi' # lastProcessedFeederRi
          => \/ \E body \in Bodies :
                  HandleNFeeder(body) /\ PushRi(body) = lastProcessedFeederRi'
             \/ \E r \in PollReplies :
                  PollFeeder(r) /\ PollRi(r) = lastProcessedFeederRi'
    ]_vars

\* C7: once setup() has reset the pins, the feeder output is on exactly
\* while feederPulseActive holds, and no webhook or poll of a standard
\* channel, whatever it is given, writes the feeder output.
C7_OutputIffActive ==
  /\ pc.at # "setup" => (RelayOn(PIN_FEEDER) <=> feederPulseActive)
  /\ \A pin \in StdPins :
       /\ \A body \in StdBodies :
            stdNotify(level, pin, body).level[PIN_FEEDER] = level[PIN_FEEDER]
       /\ \A r \in PollReplies :
            stdPoll(level, pin, r).level[PIN_FEEDER] = level[PIN_FEEDER]

\* a standard channel was switched on by its webhook during a pulse
C7_Witness ==
  /\ pc = At("pulseService", 0)
  /\ resp = Sent(200, "ok")
  /\ feederPulseActive
  /\ RelayOn(PIN_FEEDER)
  /\ RelayOn(PIN_HEATER)

\* the callback URL of the call in progress
CurrentNu == CallbackUrl(sub.ip, pc.i)

\* the notification targets nu name the address ip / the URL u
NuHasAddress(nu, ip) == \E k \in 1..Len(nu) : nu[k].ip = ip
NuHasUrl(nu, u) == \E k \in 1..Len(nu) : nu[k] = u

IsPut(req) == req.m = "PUT"
Returned == pc.at = "sub" /\ sub.stage = "ret"

\* C8: after a 409 and a read-back, exactly one PUT with nu = [callback URL]
\* was sent if the nu read back does not name the device's address, and no
\* PUT at all if it does.
C8_SelfHeal ==
  (Returned /\ sub.post = 409 /\ sub.get = 200)
  => IF ~NuHasAddress(sub.read, sub.ip)
     THEN SelectSeq(sub.sent, IsPut) = <<[m |-> "PUT", body |-> PutBody(CurrentNu)]>>
     ELSE SelectSeq(sub.sent, IsPut) = <<>>

\* C9: createSubscription returns true only if the remote subscription then
\* targets the current callback URL, and exactly when the replies were 201,
\* or 409 and a read-back naming the URL, or 409, a read-back and a
\* successful update.
C9_SuccessIsTruthful ==
  Returned
  => /\ sub.ret => (sub.remote.exists /\ NuHasUrl(sub.remote.nu, CurrentNu))
     /\ sub.ret <=> \/ sub.post = 201
                    \/ sub.post = 409 /\ sub.get = 200
                         /\ NuHasUrl(sub.read, CurrentNu)
                    \/ sub.post = 409 /\ sub.get = 200 /\ sub.put = 200

\* a webhook body the handlers must reject: empty, not an envelope, a link
\* of sgn -> nev -> rep -> cin -> con missing, or content that is neither
\* on nor off
Malformed(body) ==
  \/ body.k # "json"
  \/ body.sgn \notin {"m2m:sgn", "sgn"}
  \/ ~body.nev \/ ~body.rep \/ ~body.cin \/ ~body.con.present
BadBodies ==
  {body \in Bodies :
     Malformed(body) \/ ~parseConToOnOff(Unescape(Trim(body.con.text))).ok}

\* C10: on every webhook path, in every state in which a request can be
\* served, a rejected request is answered 400 and changes no output, no
\* pulse state and no dedup record.
C10_WebhookFailure ==
  AtHandleClient => \A body \in BadBodies :
    /\ \A pin \in StdPins :
         /\ stdNotify(level, pin, body).resp.code = 400
         /\ stdNotify(level, pin, body).level = level
    /\ feederNotify(FeederState, body, millis).resp.code = 400
    /\ feederNotify(FeederState, body, millis).st = FeederState

\* a request was rejected while a pulse was running and the light was on
C10_Witness ==
  /\ pc = At("pulseService", 0)
  /\ resp.code = 400
  /\ feederPulseActive
  /\ RelayOn(PIN_LED)

\* a webhook body with the whole chain sgn -> nev -> rep -> cin -> con whose
\* content decodes to on or to off
Acceptable(body) == \E b \in BOOLEAN : PushDecodes(body, b)
ExpectedCode(body) == IF Acceptable(body) THEN 200 ELSE 400

\* C11: in every state in which a request can be served, each of the four
\* webhooks answers any request with one reply, whose code is 200 if the
\* envelope is well-formed and its content decodes to on or off (a feeder
\* duplicate, a feeder "off" and a feeder "on" during a pulse included), and
\* 400 otherwise; the reply of the request just served is one of the two.
C11_ResponseCode ==
  /\ AtHandleClient => \A body \in Bodies :
       /\ \A pin \in StdPins :
            stdNotify(level, pin, body).resp.code = ExpectedCode(body)
       /\ feederNotify(FeederState, body, millis).resp.code = ExpectedCode(body)
  /\ pc = At("pulseService", 0) => resp.code \in {0, 200, 400}
  /\ pc # At("pulseService", 0) => resp = NoResp

\* a feeder "on" with a new ri was answered 200 while the pulse started by
\* another ri was running
C11_Witness ==
  /\ pc = At("pulseService", 0)
  /\ resp = Sent(200, "ok")
  /\ feederPulseActive
  /\ pulsed # {}
  /\ lastProcessedFeederRi \in RiSet \ pulsed

\* the level relayWritePin gives a pin for the command b
LevelFor(b) == relayWritePin(level, PIN_LED, b)[PIN_LED]
DedupVars == <<feederPulseActive, feederPulseEndMs, lastProcessedFeederRi>>

\* pin holds the level of the command b, every other pin is as it was, and
\* the pulse state and the dedup record are as they were
Applied(pin, b) ==
  /\ level' = [level EXCEPT ![pin] = LevelFor(b)]
  /\ UNCHANGED DedupVars

StdBodiesOn == BodiesOn \cap StdBodies
StdBodiesOff == BodiesOff \cap StdBodies
StdBodiesFor(b) == IF b THEN StdBodiesOn ELSE StdBodiesOff
RepliesFor(b) == IF b THEN RepliesOn ELSE RepliesOff

\* C12: a push notification or a poll read of LED, heater or pump whose
\* content decodes to b leaves that channel's output at the level of b,
\* whatever the ri and the previous level, the push being answered 200;
\* the other outputs, the pulse state and the dedup record are unchanged.
C12_StdAppliesEveryCommand ==
  [][/\ AtHandleClient => \A pin \in StdPins, b \in BOOLEAN :
          ~(Applied(pin, b) /\ resp'.code = 200)
          => \A body \in StdBodiesFor(b) : ~HandleNStd(pin, body)
     /\ (AtPoll /\ ChanPins[pc.i] \in StdPins) => \A b \in BOOLEAN :
          ~Applied(ChanPins[pc.i], b)
          => \A r \in RepliesFor(b) : ~PollStd(r)
    ]_vars

\* the pump was switched on by its webhook or left on by it, the feeder
\* idle and its record empty
C12_Witness ==
  /\ pc = At("pulseService", 0)
  /\ resp = Sent(200, "ok")
  /\ RelayOn(PIN_PUMP)
  /\ ~RelayOn(PIN_LED)
  /\ ~feederPulseActive
  /\ lastProcessedFeederRi = ""

\* a reply to the GET of <container>/la that carries no command: no
\* connection, 404 or another status than 200, a body that is not JSON, no
\* m2m:cin in it, or content that is neither on nor off
FailedReply(r) ==
  \/ ~r.begin
  \/ r.code # 200
  \/ ~r.json
  \/ ~r.cin
  \/ ~parseConToOnOff(Unescape(Trim(ConAsString(r.con)))).ok
FailedReplies == {r \in PollReplies : FailedReply(r)}

\* C13: a poll read of any channel that gets a failed reply changes no
\* output, no pulse state and no dedup record, returns false, and is
\* followed by the next read of the cycle (or the end of the cycle), not by
\* a second read of the same channel.
C13_PollFailureNoChange ==
  [][(AtPoll /\ ~(/\ UNCHANGED <<level, DedupVars, resp, lastPoll>>
                  /\ fetched' = Fetched(FALSE)
                  /\ pc' = AfterPoll(pc)
                  /\ pc' # pc))
      => \A r \in FailedReplies : ~PollStd(r) /\ ~PollFeeder(r)]_vars

\* the feeder's read of a loop-driven cycle failed while a pulse was running
C13_Witness ==
  /\ pc = At("poll", 3)
  /\ fetched = Fetched(FALSE)
  /\ feederPulseActive
  /\ RelayOn(PIN_FEEDER)
  /\ lastProcessedFeederRi \in RiSet

(***************************************************************************)
(* The content decoder on its own: the device has booted with every relay  *)
(* off and serves notifications of the standard channels whose content     *)
(* runs over the forms the decoder distinguishes.                          *)
(***************************************************************************)
OnForms ==
  { Word("on"), Word("ON"), Word("1"), Obj(JStr("on"), JAbsent),
    Obj(JAbsent, JBool("true")), Obj(JAbsent, JInt("1")),
    Obj(JAbsent, JStr("on")) }
OffForms ==
  { Word("off"), Word("OFF"), Word("0"), Obj(JStr("off"), JAbsent),
    Obj(JAbsent, JBool("false")), Obj(JAbsent, JInt("0")),
    Obj(JAbsent, JStr("off")) }
UnrecognizedForms ==
  { Word("banana"), Obj(JAbsent, JAbsent), Obj(JAbsent, JStr("maybe")), BadObj }

\* both fields present and at odds: the cmd field decides
CmdOverOn == { Obj(JStr("on"), JBool("false")), Obj(JStr("on"), JStr("off")) }
CmdOverOff == { Obj(JStr("off"), JBool("true")), Obj(JStr("off"), JInt("1")) }

DecoderCons ==
  OnForms \cup OffForms \cup UnrecognizedForms \cup CmdOverOn \cup CmdOverOff
DecoderBody(c) == Envelope("m2m:sgn", TRUE, TRUE, TRUE, ConField(c), NoRi)

\* the clock advances by less than a poll period
DecoderDeltas == {1, FEED_PULSE_MS - 1}

DecoderInit ==
  /\ pc = At("handleClient", 0)
  /\ sub = NoCall
  /\ millis = U32(0)
  /\ level = [p \in Pins |-> IF RELAY_ACTIVE_LOW THEN "HIGH" ELSE "LOW"]
  /\ feederPulseActive = FALSE
  /\ feederPulseEndMs = U32(0)
  /\ lastProcessedFeederRi = ""
  /\ lastPoll = U32(0)
  /\ resp = NoResp
  /\ ticks = 0
  /\ pulsed = {}
  /\ fetched = NoFetch

DecoderNext ==
  \/ \E pin \in StdPins, c \in DecoderCons : HandleNStd(pin, DecoderBody(c))
  \/ PulseService
  \/ PollCheck
  \/ Delay
  \/ \E d \in DecoderDeltas : Tick(d)

DecoderSpec == DecoderInit /\ [][DecoderNext]_vars

\* what the decoder is to return for the content c
Expected(c) ==
  IF c \in OnForms \cup CmdOverOn THEN Decoded(TRUE)
  ELSE IF c \in OffForms \cup CmdOverOff THEN Decoded(FALSE)
  ELSE NoDecode

\* C14: parseConToOnOff returns true for "on", "ON", "1", {"cmd":"on"},
\* {"on":true}, {"on":1}, {"on":"on"}, false for the matching off forms,
\* and fails on "banana", {}, {"on":"maybe"} and text that is not JSON; the
\* cmd field is looked at before the on field; a notification carrying the
\* content changes nothing but the addressed pin, which takes the decoded
\* level, and changes nothing at all when the decoder fails.
C14_DecoderTable ==
  /\ \A c \in DecoderCons :
       /\ parseConToOnOff(c).ok = Expected(c).ok
       /\ Expected(c).ok => parseConToOnOff(c).on = Expected(c).on
  /\ AtHandleClient => \A pin \in StdPins, c \in DecoderCons :
       stdNotify(level, pin, DecoderBody(c))
         = IF Expected(c).ok
           THEN [level |-> relayWritePin(level, pin, Expected(c).on),
                 resp |-> Sent(200, "ok")]
           ELSE [level |-> level, resp |-> Sent(400, "bad con")]

\* content the decoder does not recognise was rejected after the light
\* and the pump had been switched on
C14_Witness ==
  /\ pc = At("pulseService", 0)
  /\ resp = Sent(400, "bad con")
  /\ RelayOn(PIN_LED)
  /\ RelayOn(PIN_PUMP)
  /\ ~RelayOn(PIN_HEATER)

\* the feeder command (content c, resource identifier r) as the webhook
\* gets it and as the poll reader gets it
AsPush(c, r) == Envelope("m2m:sgn", TRUE, TRUE, TRUE, ConField(c), r)
AsPoll(c, r) == PollReply(TRUE, 200, TRUE, TRUE, ConField(c), r)

\* C15: in every state in which a command can be processed, a feeder command with any content and any ri,
\* present, empty or missing, leaves the same dedup record, pulse state and
\* outputs whether handle_n_feeder or fetchLatestFeederAndMaybePulse
\* processes it.
C15_PollPushAlike ==
  (AtHandleClient \/ AtPoll) =>
    \A c \in ConInputs, r \in RiInputs :
      feederNotify(FeederState, AsPush(c, r), millis).st
        = feederPoll(FeederState, AsPoll(c, r), millis).st

\* C16: while a pulse is running, every step leaves the pulse running, the
\* feeder output on and the deadline as stored, except the step of
\* feederPulseService that finds millis() >= feederPulseEndMs, which ends
\* the pulse and switches the output off.
C16_OnlyDeadlineEndsPulse ==
  [][feederPulseActive
      => \/ /\ feederPulseActive'
            /\ LevelOn(level'[PIN_FEEDER])
            /\ feederPulseEndMs' = feederPulseEndMs
         \/ /\ pc = At("pulseService", 0) /\ pc' = At("pollCheck", 0)
            /\ Geq32(millis, feederPulseEndMs)
            /\ ~feederPulseActive'
            /\ ~LevelOn(level'[PIN_FEEDER])]_vars

\* a duplicate "on" was pushed during a pulse, some time after it began
C16_Witness ==
  /\ pc = At("pulseService", 0)
  /\ resp = Sent(200, "dup")
  /\ feederPulseActive
  /\ RelayOn(PIN_FEEDER)
  /\ millis # Sub32(feederPulseEndMs, U32(FEED_PULSE_MS))

\* times after the trigger at which the deadline check is made
ElapsedSamples == {0, 1, FEED_PULSE_MS - 1, FEED_PULSE_MS, FEED_PULSE_MS + 1}

\* C18: for every time T the clock shows while the feeder is idle, those
\* within 2000 ms of the wrap of the 32-bit counter included, a pulse
\* triggered at T is still running after a deadline check made less than
\* 2000 ms after T and is ended by a check made 2000 ms or more after T.
C18_TimingOverRange ==
  (~feederPulseActive /\ pc.at # "setup") =>
    \A e \in ElapsedSamples :
      feederPulseService(startFeederPulse(FeederState, millis),
                         Add32(millis, U32(e))).active
        <=> e < FEED_PULSE_MS

\* the step is the i-th read of a poll cycle: the fetch of channel i has
\* returned, only that channel's state may differ, and the cycle goes on
ReadOfChannel(i) ==
  /\ fetched' # NoFetch
  /\ \A p \in Pins \ {ChanPins[i]} : level'[p] = level[p]
  /\ ChanPins[i] # PIN_FEEDER => UNCHANGED DedupVars
  /\ pc' = IF i < 4 THEN At(pc.at, i + 1)
            ELSE IF pc.at = "poll" THEN At("delay", 0)
            ELSE At("handleClient", 0)

Methods(sent) == {sent[k].m : k \in 1..Len(sent)}
IsPost(req) == req.m = "POST"

\* C20: createSubscription runs only in setup(), once for each of the four
\* channels in turn whatever the previous call returned, each call sending
\* one POST and at most a GET and a PUT after it; no request for a
\* subscription is sent from loop() or the poll cycles, and none is a
\* DELETE.
C20_SubscriptionsOnlyAtStartup ==
  [][/\ sub' # sub => (pc.at = "sub" /\ pc'.at \in {"sub", "bootpoll"})
     /\ pc.at # "sub" => (sub = NoCall /\ (pc'.at = "sub" => pc.at = "setup"))
     /\ Methods(sub'.sent) \subseteq {"POST", "GET", "PUT"}
     /\ Len(SelectSeq(sub'.sent, IsPost)) <= 1
     /\ (pc.at = "sub" /\ pc' # pc)
          => /\ sub.stage = "ret"
             /\ Len(SelectSeq(sub.sent, IsPost)) = 1
             /\ pc' = IF pc.i < 4 THEN At("sub", pc.i + 1) ELSE At("bootpoll", 1)
    ]_vars

\* the call for the last channel has returned false, its POST refused
C20_Witness ==
  /\ pc = At("sub", 4)
  /\ sub.stage = "ret"
  /\ ~sub.ret
  /\ Methods(sub.sent) = {"POST"}

(***************************************************************************)
(* The running loop with a clock that never stops: the device has booted,  *)
(* requests and poll replies keep coming, every iteration of loop() sleeps *)
(* in delay(5) and the 32-bit clock goes round.  Stretches of iterations   *)
(* in which nothing arrives and no check succeeds are taken at once.       *)
(***************************************************************************)
LOOP_DELAY_MS == 5

\* times at which the feeder is triggered: at boot, 2001 ms and 297 ms
\* before the clock wraps
LiveTriggerTimes ==
  { U32(0),
    [hi |-> W16 - 1, lo |-> W16 - (FEED_PULSE_MS + 1)],
    [hi |-> W16 - 1, lo |-> W16 - 297] }

\* how long before the deadline an idle stretch of a pulse leaves the clock
BeforeDeadline == {3, LOOP_DELAY_MS}

LiveBodies ==
  { AsPush(Word("on"), RiField("cin1")), AsPush(Word("on"), RiField("cin2")),
    AsPush(Padded(Word("OFF")), NoRi), NotJsonBody }
LiveStdBodies == { AsPush(Word("on"), NoRi), AsPush(Padded(Word("OFF")), NoRi) }
LiveReplies ==
  { PollReply(TRUE, 404, FALSE, FALSE, NoCon, NoRi),
    AsPoll(Word("on"), RiField("cin1")) }

\* the deadline of the running pulse is at most two iterations ahead
DeadlineNear ==
  Geq32(U32(2 * LOOP_DELAY_MS), Sub32(feederPulseEndMs, millis))

\* delay(5) during a pulse whose deadline is near
LiveTick ==
  /\ pc = At("delay", 0)
  /\ feederPulseActive /\ DeadlineNear
  /\ millis' = Add32(millis, U32(LOOP_DELAY_MS))
  /\ UNCHANGED <<pc, sub, level, feederPulseActive, feederPulseEndMs,
                 lastProcessedFeederRi, lastPoll, resp, ticks, pulsed, fetched>>

\* the iterations of a pulse up to k ms before its deadline: no request
\* arrives and every check finds millis() < feederPulseEndMs
IdleToDeadline(k) ==
  /\ pc = At("delay", 0)
  /\ feederPulseActive /\ ~DeadlineNear
  /\ Geq32(feederPulseEndMs, U32(k))
  /\ Geq32(Sub32(feederPulseEndMs, U32(k)), millis)
  /\ millis' = Sub32(feederPulseEndMs, U32(k))
  /\ UNCHANGED <<pc, sub, level, feederPulseActive, feederPulseEndMs,
                 lastProcessedFeederRi, lastPoll, resp, ticks, pulsed, fetched>>

\* the iterations of an idle feeder until the clock shows t
IdleTo(t) ==
  /\ pc = At("delay", 0)
  /\ ~feederPulseActive
  /\ millis # t
  /\ millis' = t
  /\ UNCHANGED <<pc, sub, level, feederPulseActive, feederPulseEndMs,
                 lastProcessedFeederRi, lastPoll, resp, ticks, pulsed, fetched>>

LiveInit == DecoderInit

\* feeder commands are issued at the trigger times, or during the pulse
\* one of them has started
CommandArrives == feederPulseActive \/ millis \in LiveTriggerTimes

LiveNFeeder(body) == CommandArrives /\ HandleNFeeder(body)
LivePollFeeder(r) == (CommandArrives \/ r.code = 404) /\ PollFeeder(r)

\* the steps of loop() and of the requests it serves and sends
LiveLoop ==
  \/ HandleClientIdle
  \/ \E body \in LiveStdBodies : HandleNStd(PIN_HEATER, body)
  \/ \E body \in LiveBodies : LiveNFeeder(body)
  \/ PulseService
  \/ PollCheck
  \/ \E r \in LiveReplies : PollStd(r)
  \/ \E r \in LiveReplies : LivePollFeeder(r)
  \/ Delay

\* the clock advances
LiveClock ==
  \/ LiveTick
  \/ \E k \in BeforeDeadline : IdleToDeadline(k)
  \/ \E t \in LiveTriggerTimes : IdleTo(t)

LiveNext == LiveLoop \/ LiveClock

LiveSpec ==
  /\ LiveInit /\ [][LiveNext]_vars
  /\ WF_vars(LiveLoop)
  /\ SF_vars(LiveClock)

\* C17: with loop() running for ever and the clock advancing in every
\* delay(5), whatever requests and poll replies arrive, a running pulse
\* leads to the feeder idle with its output off.
C17_EveryPulseEnds ==
  feederPulseActive ~> (~feederPulseActive /\ ~RelayOn(PIN_FEEDER))

====
